---- MODULE Spec2Model ----
(***************************************************************************)
(* Model of app.py: a Streamlit chat page that relays user text to a       *)
(* hosted Azure AI Foundry agent (Thread -> Message -> Run).               *)
(*                                                                         *)
(* One script run of app.py is a walk of pc from "config" to "wait" (or    *)
(* to "stopped" / back to "config" on st.rerun()).  Every remote call of   *)
(* ask_agent is its own step, so that a failure of any of them and the     *)
(* order of the calls are visible.  Text is modelled as a sequence of      *)
(* one-character strings, so that join and strip are computed.             *)
(***************************************************************************)
EXTENDS Integers, Sequences, FiniteSets, TLC

\* ------------------------------------------------------------- bounds
\* prompts accepted in one browser session
MaxTurns == 2

\* clicks on the reset button in one browser session
MaxResets == 1

\* runs.get calls recorded one by one in one ask (the loop itself is unbounded)
MaxPolls == 2

\* ------------------------------------------------------------- text
\* Python None for thread_id; remote thread ids are 1, 2, ...
None == 0

WS == {" ", "\n"}

NoReplyContent == <<"(","N","o"," ","r","e","p","l","y"," ","c","o","n","t","e","n","t",")">>

EmptyReply == <<"(","E","m","p","t","y"," ","r","e","p","l","y",")">>

\* what the user may type into st.chat_input
Inputs == { <<"h","i">>, <<"y","o">> }

\* content parts of a remote message
TextPart(s) == [type |-> "text", text |-> s]

ImagePart == [type |-> "image_file"]

\* contents the agent may give the assistant message of a completed run
AssistantContents ==
  { <<TextPart(<<"A">>), TextPart(<<"B">>)>>,
    <<ImagePart, TextPart(<<" ">>)>> }

\* run.status values; the first two are the ones the poll loop waits on
Transient == {"queued", "in_progress"}

Statuses == Transient \cup {"completed", "failed", "cancelled", "expired", "requires_action"}

\* exceptions a remote call may raise: ClientAuthenticationError is a subclass of
\* HttpResponseError; ServiceRequestError is neither
RemoteErrors == {"ClientAuthenticationError", "HttpResponseError", "ServiceRequestError"}

VARIABLES
  PROJECT_ENDPOINT,  \* resolved config value, "" when absent
  AGENT_ID,          \* resolved config value, "" when absent
  keys,              \* keys present in st.session_state
  thread_id,         \* st.session_state.thread_id
  history,           \* st.session_state.history: sequence of <<who, text>>
  pc,                \* position of the script run
  prompt,            \* value of st.chat_input in this run (<<>> when None)
  run_status,        \* run.status of ask_agent's run ("" before runs.create)
  page,              \* what messages.list returned
  reply,             \* what ask_agent returned (<<>> before it returns)
  raised,            \* exception in flight / caught in this run
  shown,             \* which st.error the except clauses displayed
  exception,         \* what st.exception displayed under it
  created,           \* remote service: number of threads created; their ids are 1..created
  messages,          \* remote service: messages of the newest thread, oldest first (the
                     \* only thread a call of this session can still name)
  calls,             \* remote calls of the current ask, in order, with results
  creates,           \* threads.create calls since session start or the last reset
  createsOk,         \* those of them that returned a thread
  held,              \* thread ids the session held before the last reset
  turns,             \* turns since session start or the last reset
  resets,            \* reset clicks so far
  prompts,           \* prompts accepted so far
  afterReset         \* a reset happened and no prompt was handled since

vars == <<PROJECT_ENDPOINT, AGENT_ID, keys, thread_id, history, pc, prompt, run_status,
          page, reply, raised, shown, exception, created, messages, calls, creates, createsOk,
          held, turns, resets, prompts, afterReset>>

config == <<PROJECT_ENDPOINT, AGENT_ID>>

session == <<keys, thread_id, history>>

locals == <<prompt, run_status, page, reply, raised, shown, exception>>

ghosts == <<creates, createsOk, held, turns, resets, prompts, afterReset>>

NoError == [type |-> "none"]

\* ------------------------------------------------------------- helpers
Last(s) == s[Len(s)]

Reverse(s) == [i \in 1..Len(s) |-> s[Len(s) + 1 - i]]

Count(s, op) == Cardinality({i \in 1..Len(s) : s[i].op = op})

\* os.getenv(name) falling back to st.secrets.get(name, "")
Resolve(env, secret) == IF env # "" THEN env ELSE secret

\* faulty variant: only the endpoint is validated
ConfigMissingEndpointOnly(endpoint, agent) == endpoint = ""

\* line 37: not PROJECT_ENDPOINT or not AGENT_ID
ConfigMissing(endpoint, agent) == endpoint = "" \/ agent = ""

\* faulty variant: the session state is initialised on every script run
KeyMissingAlways(k, ks) == TRUE

\* lines 42, 44: "..." not in st.session_state
KeyMissing(k, ks) == k \notin ks

\* faulty variant: the parts are joined with a blank instead of a newline
RECURSIVE JoinBlank(_)
JoinBlank(parts) ==
  IF parts = <<>> THEN <<>>
  ELSE IF Len(parts) = 1 THEN parts[1]
  ELSE parts[1] \o <<" ">> \o JoinBlank(Tail(parts))

\* "\n".join(parts)
RECURSIVE Join(_)
Join(parts) ==
  IF parts = <<>> THEN <<>>
  ELSE IF Len(parts) = 1 THEN parts[1]
  ELSE parts[1] \o <<"\n">> \o Join(Tail(parts))

RECURSIVE LStrip(_)
LStrip(s) == IF s # <<>> /\ s[1] \in WS THEN LStrip(Tail(s)) ELSE s

RECURSIVE RStrip(_)
RStrip(s) == IF s # <<>> /\ Last(s) \in WS THEN RStrip(SubSeq(s, 1, Len(s) - 1)) ELSE s

\* str.strip()
Strip(s) == RStrip(LStrip(s))

\* for c in assistant_msg.content: if c.type == "text": parts.append(c.text.value)
RECURSIVE TextParts(_)
TextParts(content) ==
  IF content = <<>> THEN <<>>
  ELSE IF content[1].type = "text" THEN <<content[1].text>> \o TextParts(Tail(content))
  ELSE TextParts(Tail(content))

\* next((m for m in page if m.role == "assistant"), None); <<>> stands for None
RECURSIVE FirstAssistant(_)
FirstAssistant(p) ==
  IF p = <<>> THEN <<>>
  ELSE IF p[1].role = "assistant" THEN <<p[1]>>
  ELSE FirstAssistant(Tail(p))

\* faulty variant: only a missing message counts, "or not assistant_msg.content" is dropped
NoContentMissingOnly(found) == found = <<>>

\* if not assistant_msg or not assistant_msg.content
NoContent(found) == found = <<>> \/ found[1].content = <<>>

\* faulty variant: the "(Empty reply)" fallback is dropped
JoinedOnly(parts) == Strip(Join(parts))

\* "\n".join(parts).strip() or "(Empty reply)"
JoinedOrEmpty(parts) == IF Strip(Join(parts)) = <<>> THEN EmptyReply ELSE Strip(Join(parts))

\* lines 84-94 of ask_agent: the reply extracted from the listed page
ExtractReply(p) ==
  LET found == FirstAssistant(p)
  IN IF NoContent(found) THEN NoReplyContent
     ELSE JoinedOrEmpty(TextParts(found[1].content))

\* RuntimeError(f"Run ended with status: {run.status}")
RunFailure(status) ==
  [type |-> "RuntimeError", message |-> <<"Run ended with status: ", status>>]

\* faulty variant: only the status "failed" is treated as a failure
RunFailedOnlyFailed(status) == status = "failed"

\* if run.status != "completed": raise RuntimeError(...)
RunFailed(status) == status # "completed"

\* faulty variant: the loop waits until the run is completed
StillRunningUntilCompleted(status) == status # "completed"

\* faulty variant: the loop waits on "queued" only
StillRunningQueuedOnly(status) == status = "queued"

\* while run.status in ("queued", "in_progress")
StillRunning(status) == status \in Transient

\* isinstance(e, cls): the classes of azure.core.exceptions the handler names
IsInstance(e, cls) ==
  \/ cls = "Exception"
  \/ e.type = cls
  \/ e.type = "ClientAuthenticationError" /\ cls = "HttpResponseError"

\* faulty variant: the clause for HttpResponseError is written first
CaughtHttpFirst(e) ==
  IF IsInstance(e, "HttpResponseError") THEN "The service returned an error."
  ELSE IF IsInstance(e, "ClientAuthenticationError") THEN "Authentication failed."
  ELSE "Something went wrong."

\* the except clause that catches e, in the order the clauses are written
Caught(e) ==
  IF IsInstance(e, "ClientAuthenticationError") THEN "Authentication failed."
  ELSE IF IsInstance(e, "HttpResponseError") THEN "The service returned an error."
  ELSE "Something went wrong."

\* faulty variant: ensure_thread creates a thread on every call
NeedsThreadAlways(tid) == TRUE

\* if st.session_state.thread_id is None
NeedsThread(tid) == tid = None

\* faulty variant: the reset button leaves thread_id as it is
ResetThreadIdKept(tid) == tid

\* faulty variant: the reset button leaves the history as it is
ResetHistoryKept(h) == h

\* st.session_state.thread_id = None / st.session_state.history = [] of the reset button
ResetThreadId(tid) == None

ResetHistory(h) == <<>>

\* faulty variant: the created thread's id is not cached
StoredIdNone(id) == None

\* st.session_state.thread_id = t.id
StoredId(id) == id

\* faulty variant: the prompt is stored under the assistant's role
UserEntryAsAssistant(text) == <<"assistant", text>>

\* st.session_state.history.append(("user", prompt))
UserEntry(text) == <<"user", text>>

\* faulty variant: the reply is recorded under the user's role
AssistantEntryAsUser(text) == <<"user", text>>

\* st.session_state.history.append(("assistant", reply))
AssistantEntry(text) == <<"assistant", text>>

\* faulty variant: the except clauses record the failure as an assistant entry
AfterErrorAppends(h) == Append(h, <<"assistant", <<>>>>)

\* the except clauses show the error and leave the history as it is
AfterError(h) == h

\* the remote service on a run reaching status s: a completed run may have added
\* one assistant message to the thread
RunEffect(s, msgs) ==
  IF s = "completed"
  THEN {msgs} \cup {Append(msgs, [role |-> "assistant", content |-> c]) : c \in AssistantContents}
  ELSE {msgs}

\* ghost: record a remote call of this ask; the runs.get calls after the first MaxPolls
\* are recorded as one "more" entry, which keeps the record finite
Record(op, res) ==
  IF op = "runs.get" /\ Count(calls, "runs.get") >= MaxPolls
  THEN IF Last(calls).op = "more" THEN calls ELSE Append(calls, [op |-> "more", res |-> ""])
  ELSE Append(calls, [op |-> op, res |-> res])

\* ghost: the last turn's record with some fields replaced
EndTurn(outcome, r) ==
  [turns EXCEPT ![Len(turns)] =
     [@ EXCEPT !.outcome = outcome, !.reply = r, !.tid1 = thread_id]]

\* ------------------------------------------------------------- initial state
Init ==
  /\ \E env, secret \in [{"PROJECT_ENDPOINT", "AGENT_ID"} -> {"", "set"}] :
       /\ PROJECT_ENDPOINT = Resolve(env["PROJECT_ENDPOINT"], secret["PROJECT_ENDPOINT"])
       /\ AGENT_ID = Resolve(env["AGENT_ID"], secret["AGENT_ID"])
  /\ keys = {}
  /\ thread_id = None
  /\ history = <<>>
  /\ pc = "config"
  /\ prompt = <<>>
  /\ run_status = ""
  /\ page = <<>>
  /\ reply = <<>>
  /\ raised = NoError
  /\ shown = ""
  /\ exception = NoError
  /\ created = 0
  /\ messages = <<>>
  /\ calls = <<>>
  /\ creates = 0
  /\ createsOk = 0
  /\ held = {}
  /\ turns = <<>>
  /\ resets = 0
  /\ prompts = 0
  /\ afterReset = FALSE

\* ------------------------------------------------------------- the script run
\* ghost + control: a remote call raised e
Fail(op, e) ==
  /\ raised' = [type |-> e]
  /\ calls' = Record(op, "raised")
  /\ pc' = "except"

\* lines 18-39: resolve and validate the configuration, st.stop() when incomplete
validate_config ==
  /\ pc = "config"
  /\ pc' = IF ConfigMissing(PROJECT_ENDPOINT, AGENT_ID) THEN "stopped" ELSE "init"
  /\ UNCHANGED <<config, session, locals, created, messages, calls, ghosts>>

\* lines 42-45: initialise the session state on the first run of the session
init_session ==
  /\ pc = "init"
  /\ thread_id' = IF KeyMissing("thread_id", keys) THEN None ELSE thread_id
  /\ history' = IF KeyMissing("history", keys) THEN <<>> ELSE history
  /\ keys' = keys \cup {"thread_id", "history"}
  /\ pc' = "render"
  /\ UNCHANGED <<config, locals, created, messages, calls, ghosts>>

\* lines 97-99: render the chat history
render_history ==
  /\ pc = "render"
  /\ pc' = "input"
  /\ UNCHANGED <<config, session, locals, created, messages, calls, ghosts>>

\* lines 102-104: prompt = st.chat_input(...); if prompt
chat_input ==
  /\ pc = "input"
  /\ \E p \in Inputs \cup {<<>>} :
       /\ p # <<>> => prompts < MaxTurns
       /\ prompt' = p
       /\ pc' = IF p # <<>> THEN "append_user" ELSE "sidebar"
  /\ UNCHANGED <<config, session, run_status, page, reply, raised, shown, exception, created,
                 messages, calls, ghosts>>

\* lines 105-107: show the prompt and append it to the history
append_user ==
  /\ pc = "append_user"
  /\ history' = Append(history, UserEntry(prompt))
  /\ turns' = Append(turns, [u |-> prompt, before |-> history, tid0 |-> thread_id,
                              outcome |-> "running", reply |-> <<>>, tid1 |-> thread_id])
  /\ prompts' = prompts + 1
  /\ afterReset' = FALSE
  /\ calls' = <<>>
  /\ pc' = "ensure_thread"
  /\ UNCHANGED <<config, keys, thread_id, locals, created, messages, creates, createsOk, held,
                 resets>>

\* lines 48-53 and 57-58: ensure_thread()
ensure_thread ==
  /\ pc = "ensure_thread"
  /\ \/ /\ ~NeedsThread(thread_id)
        /\ pc' = "messages.create"
        /\ UNCHANGED <<thread_id, created, messages, calls, creates, createsOk, raised>>
     \/ /\ NeedsThread(thread_id)
        /\ created' = created + 1
        /\ messages' = <<>>
        /\ thread_id' = StoredId(created + 1)
        /\ creates' = creates + 1
        /\ createsOk' = createsOk + 1
        /\ calls' = Record("threads.create", "ok")
        /\ pc' = "messages.create"
        /\ UNCHANGED raised
     \/ /\ NeedsThread(thread_id)
        /\ \E e \in RemoteErrors : Fail("threads.create", e)
        /\ creates' = creates + 1
        /\ UNCHANGED <<thread_id, created, messages, createsOk>>
  /\ UNCHANGED <<config, keys, history, prompt, run_status, page, reply, shown, exception, held,
                 turns, resets, prompts, afterReset>>

\* lines 61-64: project_client.agents.messages.create(thread_id, body=...)
messages_create ==
  /\ pc = "messages.create"
  /\ \/ /\ messages' = Append(messages, [role |-> "user", content |-> <<TextPart(prompt)>>])
        /\ calls' = Record("messages.create", "ok")
        /\ pc' = "runs.create"
        /\ UNCHANGED raised
     \/ /\ \E e \in RemoteErrors : Fail("messages.create", e)
        /\ UNCHANGED messages
  /\ UNCHANGED <<config, session, prompt, run_status, page, reply, shown, exception, created,
                 ghosts>>

\* lines 67-69: run = project_client.agents.runs.create(thread_id=..., agent_id=AGENT_ID)
runs_create ==
  /\ pc = "runs.create"
  /\ \/ /\ \E s \in Statuses :
             /\ run_status' = s
             /\ calls' = Record("runs.create", s)
             /\ messages' \in RunEffect(s, messages)
        /\ pc' = "poll"
        /\ UNCHANGED raised
     \/ /\ \E e \in RemoteErrors : Fail("runs.create", e)
        /\ UNCHANGED <<run_status, messages>>
  /\ UNCHANGED <<config, session, prompt, page, reply, shown, exception, created, ghosts>>

\* lines 73-77: the while condition holds; time.sleep(0.8), then runs.get
poll ==
  /\ pc = "poll"
  /\ StillRunning(run_status)
  /\ \/ /\ \E s \in Statuses :
             /\ run_status' = s
             /\ calls' = Record("runs.get", s)
             /\ messages' \in RunEffect(s, messages)
        /\ pc' = "poll"
        /\ UNCHANGED raised
     \/ /\ \E e \in RemoteErrors : Fail("runs.get", e)
        /\ UNCHANGED <<run_status, messages>>
  /\ UNCHANGED <<config, session, prompt, page, reply, shown, exception, created, ghosts>>

\* lines 73 and 79-80: the while condition fails;
\* if run.status != "completed": raise RuntimeError(f"Run ended with status: {run.status}")
check_status ==
  /\ pc = "poll"
  /\ ~StillRunning(run_status)
  /\ IF RunFailed(run_status)
     THEN /\ raised' = [type |-> "RuntimeError",
                        message |-> <<"Run ended with status: ", run_status>>]
          /\ pc' = "except"
     ELSE /\ pc' = "messages.list"
          /\ UNCHANGED raised
  /\ UNCHANGED <<config, session, prompt, run_status, page, reply, shown, exception, created,
                 messages, calls, ghosts>>

\* lines 83-94 and 112: page = messages.list(thread_id, order="desc"), then the reply is
\* extracted from the page and ask_agent returns it
messages_list ==
  /\ pc = "messages.list"
  /\ \/ /\ page' = Reverse(messages)
        /\ reply' = ExtractReply(page')
        /\ calls' = Record("messages.list", "ok")
        /\ pc' = "append_assistant"
        /\ UNCHANGED raised
     \/ /\ \E e \in RemoteErrors : Fail("messages.list", e)
        /\ UNCHANGED <<page, reply>>
  /\ UNCHANGED <<config, session, prompt, run_status, shown, exception, created, messages, ghosts>>

\* ask_agent is over: its locals and the record of its calls are dead
ForgetAsk ==
  /\ run_status' = ""
  /\ page' = <<>>
  /\ calls' = <<>>

\* lines 113-114: show the reply and append it to the history
append_assistant ==
  /\ pc = "append_assistant"
  /\ history' = Append(history, AssistantEntry(reply))
  /\ turns' = EndTurn("ok", reply)
  /\ ForgetAsk
  /\ pc' = "sidebar"
  /\ UNCHANGED <<config, keys, thread_id, prompt, reply, raised, shown, exception, created,
                 messages, creates, createsOk, held, resets, prompts, afterReset>>

\* lines 116-124: the except clauses
except ==
  /\ pc = "except"
  /\ shown' = Caught(raised)
  /\ exception' = raised
  /\ raised' = NoError
  /\ history' = AfterError(history)
  /\ turns' = EndTurn("fail", <<>>)
  /\ ForgetAsk
  /\ pc' = "sidebar"
  /\ UNCHANGED <<config, keys, thread_id, prompt, reply, created, messages, creates, createsOk,
                 held, resets, prompts, afterReset>>

\* the locals of a script run are dead once the prompt handler is over
ForgetLocals ==
  /\ prompt' = <<>>
  /\ reply' = <<>>
  /\ shown' = ""
  /\ exception' = NoError

\* lines 127-131: the sidebar; a click on the reset button clears thread_id first.
\* The remote thread is left as it is, but no later call can name it: the model
\* stops tracking its messages.
sidebar ==
  /\ pc = "sidebar"
  /\ \/ /\ resets < MaxResets
        /\ thread_id' = ResetThreadId(thread_id)
        /\ messages' = IF thread_id' = None THEN <<>> ELSE messages
        /\ held' = held \cup ({thread_id} \ {None})
        /\ resets' = resets + 1
        /\ afterReset' = TRUE
        /\ turns' = <<>>
        /\ creates' = 0
        /\ createsOk' = 0
        /\ pc' = "reset_history"
     \/ /\ pc' = "wait"
        /\ UNCHANGED <<thread_id, messages, creates, createsOk, held, turns, resets,
                       afterReset>>
  /\ ForgetLocals
  /\ UNCHANGED <<config, keys, history, run_status, page, raised, created, calls, prompts>>

\* line 132: st.session_state.history = []
reset_history ==
  /\ pc = "reset_history"
  /\ history' = ResetHistory(history)
  /\ pc' = "rerun"
  /\ UNCHANGED <<config, keys, thread_id, locals, created, messages, calls, ghosts>>

\* line 133: st.rerun() starts the script again from the top
rerun ==
  /\ pc = "rerun"
  /\ pc' = "config"
  /\ UNCHANGED <<config, session, locals, created, messages, calls, ghosts>>

\* the script ran to its end; the next widget event starts it again from the top
next_event ==
  /\ pc = "wait"
  /\ pc' = "config"
  /\ UNCHANGED <<config, session, locals, created, messages, calls, ghosts>>

Next ==
  \/ validate_config
  \/ init_session
  \/ render_history
  \/ chat_input
  \/ append_user
  \/ ensure_thread
  \/ messages_create
  \/ runs_create
  \/ poll
  \/ check_status
  \/ messages_list
  \/ append_assistant
  \/ except
  \/ sidebar
  \/ reset_history
  \/ rerun
  \/ next_event

Spec == Init /\ [][Next]_vars

\* ------------------------------------------------------------- one ask on a stubbed remote
\* content parts the stubbed remote builds its messages from
StubParts ==
  { TextPart(<<>>), TextPart(<<" ">>), TextPart(<<" ","A">>), TextPart(<<"B","\n">>),
    ImagePart }

\* contents of an assistant message of the stubbed remote: up to two parts
StubContents ==
  {<<>>} \cup {<<a>> : a \in StubParts} \cup {<<a, b>> : a, b \in StubParts}
         \cup {<<TextPart(<<"A">>), TextPart(<<"B">>)>>}

UserMessage(text) == [role |-> "user", content |-> <<TextPart(text)>>]

TurnRecord(u, before, tid0, outcome) ==
  [u |-> u, before |-> before, tid0 |-> tid0, outcome |-> outcome, reply |-> <<>>,
   tid1 |-> 1]

\* ask_agent is about to call runs.create, either in the first turn of a session or in
\* the turn after one whose run had added an assistant message before messages.list failed
InitStub ==
  /\ PROJECT_ENDPOINT = "set"
  /\ AGENT_ID = "set"
  /\ keys = {"thread_id", "history"}
  /\ thread_id = 1
  /\ created = 1
  /\ \E u \in Inputs :
       /\ prompt = u
       /\ \/ /\ history = <<UserEntry(u)>>
             /\ messages = <<UserMessage(u)>>
             /\ turns = <<TurnRecord(u, <<>>, None, "running")>>
             /\ calls = <<[op |-> "threads.create", res |-> "ok"],
                          [op |-> "messages.create", res |-> "ok"]>>
             /\ prompts = 1
          \/ /\ \E c \in StubContents :
                  messages = <<UserMessage(<<"h","i">>),
                               [role |-> "assistant", content |-> c], UserMessage(u)>>
             /\ history = <<UserEntry(<<"h","i">>), UserEntry(u)>>
             /\ turns = <<TurnRecord(<<"h","i">>, <<>>, None, "fail"),
                          TurnRecord(u, <<UserEntry(<<"h","i">>)>>, 1, "running")>>
             /\ calls = <<[op |-> "messages.create", res |-> "ok"]>>
             /\ prompts = 2
  /\ pc = "runs.create"
  /\ run_status = ""
  /\ page = <<>>
  /\ reply = <<>>
  /\ raised = NoError
  /\ shown = ""
  /\ exception = NoError
  /\ creates = 1
  /\ createsOk = 1
  /\ held = {}
  /\ resets = 0
  /\ afterReset = FALSE

NextStub ==
  \/ runs_create
  \/ poll
  \/ check_status
  \/ messages_list
  \/ append_assistant
  \/ except

SpecStub == InitStub /\ [][NextStub]_vars

\* runs.get returns a status outside the transient ones
RunLeavesTransient == poll /\ run_status' \notin Transient

\* one ask on the stubbed remote, where every step of the synchronous script is taken
\* and a run that is polled again and again leaves the transient states at some time
SpecRunEnds ==
  /\ InitStub
  /\ [][NextStub]_vars
  /\ WF_vars(NextStub)
  /\ WF_vars(RunLeavesTransient)

\* ------------------------------------------------------------- properties
\* thread_id at the end of turn i of the turns since the last reset
Tid1(i) == IF i = Len(turns) THEN thread_id ELSE turns[i].tid1

\* history at the end of turn i of the turns since the last reset
After(i) == IF i < Len(turns) THEN turns[i + 1].before ELSE history

\* the ensure_thread() call of turn i is over
EnsureDone(i) == i < Len(turns) \/ pc # "ensure_thread"

\* C1 as stated: for N >= 1 asks in one session with no reset between them, exactly one
\* create-thread call occurs.
C1_ExactlyOneCreateCall ==
  (turns # <<>> /\ EnsureDone(Len(turns))) => creates = 1

\* C1 amended: with no reset between the asks, create-thread is called exactly by the
\* asks that start with thread_id none; at most one of these calls returns a thread
\* (exactly one call is made when the first one succeeds), thread_id is set exactly when
\* one did, and once thread_id is set every later ask, failed or not, keeps that id.
C1_CreateOnlyWhenNone ==
  /\ creates = Cardinality({i \in 1..Len(turns) : EnsureDone(i) /\ turns[i].tid0 = None})
  /\ createsOk <= 1
  /\ (createsOk = 1) <=> (thread_id # None)
  /\ \A i \in 1..Len(turns) : turns[i].tid0 # None => Tid1(i) = turns[i].tid0
  /\ \A i \in 2..Len(turns) : turns[i].tid0 = turns[i - 1].tid1
  /\ (turns # <<>> /\ EnsureDone(1) /\ Tid1(1) # None) => creates = 1

\* two asks with no reset: the first created the thread and failed later, the second
\* reused the id and succeeded
C1_Witness ==
  /\ Len(turns) = 2
  /\ turns[1].outcome = "fail" /\ turns[1].tid1 # None
  /\ turns[2].outcome = "ok" /\ thread_id = turns[1].tid1
  /\ creates = 1

\* a threads.create call of the current ask returned a thread
CreatedNow == \E k \in 1..Len(calls) : calls[k] = [op |-> "threads.create", res |-> "ok"]

\* C2: after a reset the next ask calls create-thread, and the id it stores when the
\* call returns one (the remote gives a fresh id on every create) differs from every id
\* the session held before the reset.
C2_FreshThreadAfterReset ==
  /\ thread_id \notin held
  /\ (resets > 0 /\ turns # <<>>) => turns[1].tid0 = None
  /\ (resets > 0 /\ turns # <<>> /\ EnsureDone(1)) => creates >= 1
  /\ (resets > 0 /\ Len(turns) = 1 /\ CreatedNow) => (thread_id # None /\ thread_id \notin held)

\* the first ask after a reset of a session that held a thread has stored a new id
C2_Witness ==
  /\ resets > 0 /\ held # {}
  /\ Len(turns) = 1 /\ CreatedNow
  /\ thread_id # None

\* C3: a run that ends in a status other than completed makes ask raise the run-failure
\* error carrying that status; messages.list is not called in that turn and no reply is
\* returned.
C3_RunFailureCarriesStatus ==
  /\ run_status \in Statuses \ (Transient \cup {"completed"}) =>
       /\ pc \in {"poll", "except"}
       /\ pc = "except" => raised = RunFailure(run_status)
       /\ Count(calls, "messages.list") = 0
       /\ reply = <<>>
  /\ (pc = "except" /\ raised.type = "RuntimeError") =>
       run_status \in Statuses \ (Transient \cup {"completed"})
  /\ (pc = "sidebar" /\ turns # <<>> /\ Last(turns).outcome = "fail") => reply = <<>>

\* ask raised because the run expired
C3_Witness ==
  /\ pc = "except"
  /\ raised = RunFailure("expired")
  /\ Count(calls, "messages.list") = 0

\* the remote thread's assistant messages, and the newest of them
AssistantIdx == {i \in 1..Len(messages) : messages[i].role = "assistant"}

NewestAssistant == messages[CHOOSE i \in AssistantIdx : \A j \in AssistantIdx : j <= i]

IsTextPart(c) == c.type = "text"

\* the text values of the text parts of a content, in order
Texts(content) ==
  LET t == SelectSeq(content, IsTextPart) IN [i \in 1..Len(t) |-> t[i].text]

\* some text part holds a character that is not whitespace
NonBlank(content) ==
  \E i \in 1..Len(content) :
    /\ content[i].type = "text"
    /\ \E k \in 1..Len(content[i].text) : content[i].text[k] \notin WS

\* position before the first character of text i in the newline-joined texts
RECURSIVE Offset(_, _)
Offset(ts, i) == IF i = 1 THEN 0 ELSE Offset(ts, i - 1) + Len(ts[i - 1]) + 1

JoinedLen(ts) == IF ts = <<>> THEN 0 ELSE Offset(ts, Len(ts)) + Len(ts[Len(ts)])

\* character k of the newline-joined texts
JoinedChar(ts, k) ==
  LET i == CHOOSE i \in 1..Len(ts) : Offset(ts, i) < k /\ k <= Offset(ts, i) + Len(ts[i]) + 1
  IN IF k = Offset(ts, i) + Len(ts[i]) + 1 THEN "\n" ELSE ts[i][k - Offset(ts, i)]

\* r is the newline-joined texts without their leading and trailing whitespace
IsTrimmedJoin(ts, r) ==
  /\ r # <<>> /\ r[1] \notin WS /\ r[Len(r)] \notin WS
  /\ \E a \in 0..JoinedLen(ts) :
       /\ a + Len(r) <= JoinedLen(ts)
       /\ \A k \in 1..Len(r) : r[k] = JoinedChar(ts, a + k)
       /\ \A k \in 1..a : JoinedChar(ts, k) \in WS
       /\ \A k \in (a + Len(r) + 1)..JoinedLen(ts) : JoinedChar(ts, k) \in WS

\* the statuses runs.create and runs.get returned in this ask, in order
StatusTrace ==
  LET IsRunCall(c) == c.op \in {"runs.create", "runs.get", "more"}
      t == SelectSeq(calls, IsRunCall)
  IN [i \in 1..Len(t) |-> t[i].res]

ContentAB == <<TextPart(<<"A">>), TextPart(<<"B">>)>>

\* C4: when the run completes and the newest assistant message of the thread has text
\* that is not blank, ask returns that message's text parts, in order, joined by newline
\* and trimmed, non-text parts skipped; with runs.create returning queued, runs.get
\* returning in_progress and then completed, and text parts "A" and "B", ask returns
\* "A\nB" after exactly two runs.get calls.
C4_ReplyIsTrimmedJoin ==
  pc = "append_assistant" =>
    /\ (AssistantIdx # {} /\ NonBlank(NewestAssistant.content)) =>
         IsTrimmedJoin(Texts(NewestAssistant.content), reply)
    /\ (AssistantIdx # {} /\ NewestAssistant.content = ContentAB
        /\ StatusTrace = <<"queued", "in_progress", "completed">>) =>
         (reply = <<"A", "\n", "B">> /\ Count(calls, "runs.get") = 2)

\* the scenario of the second half of C4, with one assistant message in the thread
C4_Witness ==
  /\ pc = "append_assistant"
  /\ StatusTrace = <<"queued", "in_progress", "completed">>
  /\ Cardinality(AssistantIdx) = 1 /\ NewestAssistant.content = ContentAB
  /\ Count(calls, "runs.get") = 2
  /\ reply = <<"A", "\n", "B">>

\* C5: when the run completes and the thread has no assistant message, or its newest
\* assistant message has no content parts, ask returns "(No reply content)".
C5_NoReplyContent ==
  (pc = "append_assistant" /\ (AssistantIdx = {} \/ NewestAssistant.content = <<>>)) =>
    reply = NoReplyContent

\* ask returned the sentinel for an assistant message without content parts
C5_Witness ==
  /\ pc = "append_assistant"
  /\ AssistantIdx # {} /\ NewestAssistant.content = <<>>
  /\ reply = NoReplyContent

\* C6: when the run completes and the newest assistant message has content parts but no
\* text that is not blank (or no text part at all), ask returns "(Empty reply)"; ask
\* never returns the empty string.
C6_EmptyReply ==
  pc = "append_assistant" =>
    /\ reply # <<>>
    /\ (AssistantIdx # {} /\ NewestAssistant.content # <<>>
        /\ ~NonBlank(NewestAssistant.content)) => reply = EmptyReply

\* ask returned the sentinel for an assistant message that has only an image part
C6_Witness ==
  /\ pc = "append_assistant"
  /\ AssistantIdx # {} /\ NewestAssistant.content = <<ImagePart>>
  /\ reply = EmptyReply

\* C7: each successful turn appends exactly the user's entry followed by the assistant
\* entry holding the string ask returned; two successive successful turns u1, u2 with no
\* reset extend the history by (user,u1), (assistant,r1), (user,u2), (assistant,r2).
C7_SuccessfulTurnsAppendInOrder ==
  /\ \A i \in 1..Len(turns) :
       turns[i].outcome = "ok" =>
         After(i) = turns[i].before \o
                      << <<"user", turns[i].u>>, <<"assistant", turns[i].reply>> >>
  /\ \A i \in 1..(Len(turns) - 1) :
       (turns[i].outcome = "ok" /\ turns[i + 1].outcome = "ok") =>
         After(i + 1) = turns[i].before \o
                          << <<"user", turns[i].u>>, <<"assistant", turns[i].reply>>,
                             <<"user", turns[i + 1].u>>, <<"assistant", turns[i + 1].reply>> >>
  /\ pc = "append_assistant" => Last(turns).outcome = "running"
  /\ (pc = "sidebar" /\ reply # <<>>) => (Last(turns).outcome = "ok" /\ Last(turns).reply = reply)

\* two successful turns with different inputs and different replies are over
C7_Witness ==
  /\ pc = "sidebar"
  /\ Len(turns) = 2
  /\ turns[1].outcome = "ok" /\ turns[2].outcome = "ok"
  /\ turns[1].u # turns[2].u /\ turns[1].reply # turns[2].reply
  /\ Len(history) = 4

\* the positions of the script at which ask_agent is running
AskPcs == {"ensure_thread", "messages.create", "runs.create", "poll", "messages.list"}

\* C8: a turn that fails at any step of ask leaves the history as it was before the turn
\* plus the user's entry, which is there before the first remote call; no assistant
\* entry is added for it.
C8_FailedTurnKeepsUserEntryOnly ==
  /\ \A i \in 1..Len(turns) :
       turns[i].outcome = "fail" => After(i) = Append(turns[i].before, <<"user", turns[i].u>>)
  /\ pc \in AskPcs \cup {"except"} =>
       history = Append(Last(turns).before, <<"user", prompt>>)
  /\ pc = "ensure_thread" => calls = <<>>

\* a turn failed after an earlier turn of the session had succeeded
C8_Witness ==
  /\ pc = "sidebar"
  /\ Len(turns) = 2
  /\ turns[1].outcome = "ok" /\ turns[2].outcome = "fail"
  /\ Len(history) = 3 /\ history[3] = <<"user", prompt>>

\* the turn of this script run was aborted by an authentication error
AuthFailed ==
  \/ pc = "except" /\ raised.type = "ClientAuthenticationError"
  \/ pc = "sidebar" /\ shown = "Authentication failed."

\* C9 as stated: whichever remote call raised the authentication error, thread_id after
\* the turn equals thread_id before the turn.
C9_ThreadIdUnchanged ==
  AuthFailed => thread_id = Last(turns).tid0

\* C9 amended: a turn aborted by an authentication error appends no assistant entry and
\* leaves a thread_id that was set before the turn as it was; a turn that began with
\* thread_id none ends with thread_id none when threads.create was the rejected call,
\* and with the id of the thread it created when a later call was rejected.
C9_AuthErrorKeepsStoredThread ==
  AuthFailed =>
    /\ history = Append(Last(turns).before, <<"user", prompt>>)
    /\ Last(turns).tid0 # None => thread_id = Last(turns).tid0
    /\ (Last(turns).tid0 = None /\ pc = "except") =>
         IF Last(calls).op = "threads.create"
         THEN thread_id = None
         ELSE CreatedNow /\ thread_id = created /\ thread_id # None

\* an authentication error aborted a turn of a session that already had a thread
C9_Witness ==
  /\ pc = "sidebar" /\ shown = "Authentication failed."
  /\ Last(turns).tid0 # None /\ thread_id = Last(turns).tid0
  /\ Last(history) = <<"user", prompt>>

\* C10: every state that a render or an ask can observe after a reset has thread_id none
\* and history empty: the only state with one field cleared and the other not is the
\* one between the two assignments of the button handler.
C10_ResetClearsBoth ==
  (afterReset /\ pc # "reset_history") => (thread_id = None /\ history = <<>>)

\* the history is rendered after a reset of a session that had a thread
C10_Witness ==
  /\ afterReset /\ pc = "render"
  /\ held # {}
  /\ thread_id = None /\ history = <<>>

\* C11 as stated: once the run is started, ask ends only if the run reported a status
\* outside {queued, in_progress}.
C11_EndsOnlyWhenRunLeaves ==
  (pc \in {"except", "append_assistant"} /\ run_status # "") => run_status \notin Transient

\* C11 amended: once ask has started its run, it ends if and only if the run reports a
\* status outside {queued, in_progress} or a runs.get call raises: it ends when the run
\* leaves the transient states at some time, and as long as runs.get returns a transient
\* status the only next step is another runs.get, with no timeout, retry limit or
\* cancellation.
C11_AskEndsWhenRunLeavesOrGetRaises ==
  /\ (pc = "poll") ~> (pc = "sidebar")
  /\ [][(pc = "poll" /\ run_status \in Transient) =>
          \/ pc' = "poll"
          \/ pc' = "except" /\ raised'.type \in RemoteErrors /\ run_status' = run_status]_vars
  /\ []((pc = "except" /\ run_status \in Transient) => raised.type \in RemoteErrors)
  /\ [](pc \in {"messages.list", "append_assistant"} => run_status = "completed")

\* ask returned after more than MaxPolls runs.get calls
C11_Witness ==
  /\ pc = "append_assistant"
  /\ Count(calls, "runs.get") = MaxPolls /\ Count(calls, "more") = 1
  /\ run_status = "completed"

\* the positions of the script at which the ensure_thread() call of the ask is over
PastEnsure == {"messages.create", "runs.create", "poll", "messages.list", "except",
               "append_assistant"}

\* C12: after a turn that failed, whatever the error was, the script run goes on to its
\* end and the session stays usable: the next input is accepted and handed to ask, which
\* reuses the stored thread_id when there is one and calls create-thread when there is
\* none. (That such a turn can end in success is the reachability of C12_Witness.)
C12_UsableAfterFailedTurn ==
  /\ (turns # <<>> /\ Last(turns).outcome = "fail") =>
       pc \in {"sidebar", "reset_history", "rerun", "wait", "config", "init", "render", "input",
               "append_user"}
  /\ (pc = "input" /\ prompts < MaxTurns) => ENABLED (chat_input /\ pc' = "append_user")
  /\ pc = "append_user" => ENABLED append_user
  /\ \A i \in 2..Len(turns) :
       turns[i - 1].outcome = "fail" =>
         /\ turns[i].tid0 = turns[i - 1].tid1
         /\ (i = Len(turns) /\ pc \in PastEnsure /\ turns[i].tid0 # None) =>
              (thread_id = turns[i].tid0 /\ Count(calls, "threads.create") = 0)
         /\ (i = Len(turns) /\ pc \in PastEnsure /\ turns[i].tid0 = None) =>
              calls[1].op = "threads.create"

\* with no reset between them, a turn failed before a thread was stored and the next
\* turn created the thread and succeeded
C12_Witness ==
  /\ pc = "sidebar"
  /\ Len(turns) = 2
  /\ turns[1].outcome = "fail" /\ turns[1].tid1 = None
  /\ turns[2].outcome = "ok" /\ thread_id # None
  /\ history[Len(history)] = <<"assistant", reply>>

\* h is g with zero or more entries appended
Extends(h, g) == Len(h) >= Len(g) /\ SubSeq(h, 1, Len(g)) = g

\* C13: no step shortens the history or rewrites an entry of it, except the reset
\* handler's assignment, which empties it; the steps of an ask only append.
C13_HistoryOnlyGrows ==
  [][\/ Extends(history', history)
     \/ pc = "reset_history" /\ history' = <<>>]_vars

\* after a reset emptied a history of at least one full turn, a new turn appended to it
C13_Witness ==
  /\ resets > 0 /\ held # {}
  /\ pc = "sidebar"
  /\ Len(history) = 2 /\ history[2][1] = "assistant"

\* C14: when the endpoint or the agent id resolves to the empty string from both the
\* environment and the secret store, the script run halts at the configuration check:
\* no input is accepted, no remote operation is issued, and the session state is never
\* initialised or changed.
C14_MissingConfigHalts ==
  (PROJECT_ENDPOINT = "" \/ AGENT_ID = "") =>
    /\ pc \in {"config", "stopped"}
    /\ keys = {} /\ thread_id = None /\ history = <<>>
    /\ prompts = 0 /\ prompt = <<>> /\ turns = <<>>
    /\ created = 0 /\ creates = 0 /\ calls = <<>> /\ messages = <<>>
    /\ ~ENABLED Next \/ pc = "config"

\* the script stopped because only the agent id is missing
C14_Witness ==
  /\ pc = "stopped"
  /\ PROJECT_ENDPOINT # "" /\ AGENT_ID = ""
  /\ keys = {}

\* the place of a remote operation in the order of one ask
Rank(op) ==
  CASE op = "threads.create" -> 1
    [] op = "messages.create" -> 2
    [] op = "runs.create" -> 3
    [] op \in {"runs.get", "more"} -> 4
    [] op = "messages.list" -> 5

\* C15: the remote calls of one ask are, in this order, create-thread (only when
\* thread_id was none), post-message, create-run, zero or more get-run, list-messages;
\* none but get-run is issued twice; a call that fails is the last of the ask; get-run
\* is issued only after a transient status, list-messages only after status completed.
C15_CallsInFixedOrder ==
  pc \in AskPcs \cup {"except", "append_assistant"} =>
    /\ calls # <<>> =>
         calls[1].op = IF Last(turns).tid0 = None THEN "threads.create" ELSE "messages.create"
    /\ \A k \in 1..(Len(calls) - 1) :
         /\ calls[k].res # "raised"
         /\ \/ Rank(calls[k + 1].op) \in {Rank(calls[k].op), Rank(calls[k].op) + 1}
            \/ calls[k].op = "runs.create" /\ calls[k + 1].op = "messages.list"
         /\ Rank(calls[k + 1].op) = Rank(calls[k].op) => calls[k].op = "runs.get"
    /\ \A op \in {"threads.create", "messages.create", "runs.create", "messages.list"} :
         Count(calls, op) <= 1
    /\ \A k \in 2..Len(calls) :
         /\ calls[k].op \in {"runs.get", "more"} => calls[k - 1].res \in Transient
         /\ calls[k].op = "messages.list" =>
              /\ run_status = "completed"
              /\ calls[k - 1].op # "more" => calls[k - 1].res = "completed"
    /\ (calls # <<>> /\ Last(calls).res = "raised") => pc = "except"
    /\ pc = "messages.list" => run_status = "completed"
    /\ (pc = "poll" /\ ~StillRunning(run_status)) => ~ENABLED poll

\* a whole ask: the thread was created, the run was polled twice, the messages were listed
C15_Witness ==
  /\ pc = "append_assistant"
  /\ calls = << [op |-> "threads.create", res |-> "ok"],
                [op |-> "messages.create", res |-> "ok"],
                [op |-> "runs.create", res |-> "queued"],
                [op |-> "runs.get", res |-> "in_progress"],
                [op |-> "runs.get", res |-> "completed"],
                [op |-> "messages.list", res |-> "ok"] >>

\* the failures a turn can end with: an exception of a remote call or the run failure
Failures ==
  [type : RemoteErrors] \cup
  {[type |-> "RuntimeError", message |-> <<"Run ended with status: ", s>>] :
     s \in Statuses \ (Transient \cup {"completed"})}

\* the one message under which a failure of the given type is to be shown
Category(type) ==
  CASE type = "ClientAuthenticationError" -> "Authentication failed."
    [] type = "HttpResponseError" -> "The service returned an error."
    [] OTHER -> "Something went wrong."

\* C16: every failure of a turn is shown under exactly one message, chosen in the order
\* authentication, remote protocol error, anything else, so that an authentication error
\* is shown as one although it is a remote protocol error too; the run failure is shown
\* with the status the run ended in.
C16_OneCategoryInOrder ==
  /\ [](pc = "except" =>
          /\ raised \in Failures
          /\ raised.type = "RuntimeError" => raised.message[2] = run_status)
  /\ [][pc = "except" => (shown' = Category(raised.type) /\ exception' = raised)]_vars
  /\ []((pc = "sidebar" /\ prompt # <<>>) =>
          IF Last(turns).outcome = "fail"
          THEN exception \in Failures /\ shown = Category(exception.type)
          ELSE exception = NoError /\ shown = "")

\* after a turn that had failed with a thread stored, a cancelled run has been shown
C16_Witness ==
  /\ pc = "sidebar" /\ Len(turns) = 2
  /\ turns[1].outcome = "fail" /\ turns[1].tid1 # None
  /\ shown = "Something went wrong."
  /\ exception = [type |-> "RuntimeError", message |-> <<"Run ended with status: ", "cancelled">>]

\* the place in the thread of the user message the current ask posted
PostedIdx == CHOOSE i \in 1..Len(messages) :
               messages[i].role = "user" /\ \A j \in (i + 1)..Len(messages) : messages[j].role # "user"

\* C17: the reply ask returns is never the text of an assistant message that was in the
\* thread before this turn's user message was posted: when the completed run added no
\* assistant message, the reply is not the trimmed text of any earlier assistant message.
C17_ReplyNotFromEarlierTurn ==
  (pc = "append_assistant" /\ \A i \in AssistantIdx : i < PostedIdx) =>
    \A i \in AssistantIdx : ~IsTrimmedJoin(Texts(messages[i].content), reply)

\* the number of entries of h with the given role
Entries(h, role) == Cardinality({i \in 1..Len(h) : h[i][1] = role})

CreateFailedNow ==
  calls # <<>> /\ calls[1] = [op |-> "threads.create", res |-> "raised"]

\* C19: when threads.create fails, thread_id stays none and the ask makes no other
\* remote call; the next ask calls threads.create again; and thread_id is only ever set
\* to the id a successful threads.create call returned.
C19_FailedCreateLeavesNoThread ==
  /\ CreateFailedNow => (Len(calls) = 1 /\ thread_id = None /\ pc = "except")
  /\ \A i \in 1..Len(turns) :
       (turns[i].outcome # "running" /\ turns[i].tid1 = None) =>
         /\ turns[i].outcome = "fail" /\ turns[i].tid0 = None
         /\ i < Len(turns) =>
              /\ turns[i + 1].tid0 = None
              /\ EnsureDone(i + 1) =>
                   creates >= Cardinality({j \in 1..(i + 1) : turns[j].tid0 = None})
              /\ (i + 1 = Len(turns) /\ pc \in PastEnsure) => calls[1].op = "threads.create"
  /\ thread_id # None => (thread_id = created /\ createsOk = 1)
  /\ (pc \in PastEnsure /\ Last(turns).tid0 = None /\ thread_id # None) =>
       (calls[1] = [op |-> "threads.create", res |-> "ok"] /\ thread_id \notin held)

\* threads.create failed in one ask, and the next ask has called it again and stored
\* the id it returned
C19_Witness ==
  /\ Len(turns) = 2
  /\ turns[1].outcome = "fail" /\ turns[1].tid1 = None
  /\ pc = "messages.create"
  /\ calls = <<[op |-> "threads.create", res |-> "ok"]>>
  /\ creates = 2 /\ thread_id = created

====
